---- MODULE Spec2Model ----
(***************************************************************************)
(* A model of package timers (segmentio/timers): the Timeline deadline     *)
(* cache of timeline.go.  Time is an integer count of ticks; a context     *)
(* of package context is a record (deadline, error state, own timer).      *)
(* Every goroutine is a thread of Threads whose position in Context,       *)
(* cleanup or Cancel is pc[t]; the sync.RWMutex, the cleanupLock flag and   *)
(* the heap of map objects are explicit.                                   *)
(***************************************************************************)
EXTENDS Integers, Sequences, FiniteSets, TLC

\* ------------------------------------------------------------------ bounds
NumThreads == 2
MaxCalls == 2
MaxCancels == 2
Res == 3
MaxTimeout == 1
BgDeadline == 1
MaxAt == 7

\* ------------------------------------------------------- program constants
CleanupFactor == 100
DefaultResolution == 100

Threads == 1..NumThreads

None == "none"
Canceled == "Canceled"
DeadlineExceeded == "DeadlineExceeded"
NoDeadline == -1

VARIABLES
    Resolution,   \* Timeline.Resolution
    Background,   \* Timeline.Background: [nil, deadline, err]
    mutex,        \* Timeline.mutex: [w |-> writer announced or holding, readers |-> set]
    deadlines,    \* Timeline.deadlines: the id of a map object of heap, 0 for nil
    heap,         \* the map objects still referenced: id -> (key -> handle)
    cleanupLock,  \* Timeline.cleanupLock
    cleanupTime,  \* Timeline.cleanupTime
    ctx,          \* every context makeDeadline created, by handle 1..Len(ctx)
    clock,        \* time.Now()
    pc,           \* the position of each thread
    loc,          \* the local variables of each thread's call
    calls,        \* the number of calls made so far
    cancels,      \* the number of calls of Cancel() made so far
    issued,       \* (key, handle) pairs Context lookups produced since the last Cancel()
    returned,     \* the handles calls have returned
    sweeps,       \* the `now` of every call that ran cleanup, in order
    maxNow,       \* the largest `now` any call was given
    mono,         \* every call so far was given a `now` >= the ones before it
    fresh,        \* the first Context call after a Cancel() that ran alone: the
                  \* contexts made before it, the handle it returned, whether it ran alone
    bgMark        \* when the Background was cancelled

vars == <<Resolution, Background, mutex, deadlines, heap, cleanupLock, cleanupTime,
          ctx, clock, pc, loc, calls, cancels, issued, returned, sweeps, maxNow,
          mono, fresh, bgMark>>

tl == <<Resolution, Background, mutex, deadlines, heap, cleanupLock, cleanupTime>>
hist == <<calls, cancels, issued, returned, sweeps, maxNow, mono, fresh, bgMark>>

\* --------------------------------------------------------- pure functions

\* Go's integer division truncates toward zero
GoDiv(a, b) == IF a >= 0 THEN a \div b ELSE -((-a) \div b)

\* Go's remainder has the sign of the dividend
GoMod(a, b) == a - b * GoDiv(a, b)

\* Timeline.resolution
resolution == IF Resolution # 0 THEN Resolution ELSE DefaultResolution

\* the bucket key of Context: at rounded up to a multiple of r
Key(at, r) == IF GoMod(at, r) # 0 THEN (GoDiv(at, r) + 1) * r ELSE at

\* Timeline.nextCleanupTime
nextCleanupTime(lastCleanupTime) == lastCleanupTime + CleanupFactor * resolution

\* time.Unix(0, n).IsZero(): no int64 count of nanoseconds since 1970 is the
\* zero Time (January 1, year 1), so the test of Context never holds
IsZero(n) == FALSE

\* a test that never finds the sweep due
CleanupNeverDue(ct, now) == FALSE

\* cleanupTime.IsZero() || cleanupTime.Before(now)
CleanupDue(ct, now) == IsZero(ct) \/ ct < now

\* a sweep that removes a window early
ExpiredEarly(now, deadline) == now + resolution > deadline

\* a sweep that allows two windows of grace
ExpiredLate(now, deadline) == now > deadline + 2 * resolution

\* now.After(deadline.Add(r))
Expired(now, deadline) == now > deadline + resolution

\* a generator that can return d itself
jitterInclusive(d) == 0..d

\* the values jitterRand.Int63n(d) can return
jitter(d) == 0..(d - 1)

\* the default context.Background(): never done, no deadline
Root == [nil |-> FALSE, deadline |-> NoDeadline, err |-> None]

\* Timeline.background
background == IF ~Background.nil THEN Background ELSE Root

\* context.WithDeadline(parent, expiration) at time clk, made for bucket k
makeDeadline(parent, expiration, clk, k) ==
    LET sooner == parent.deadline # NoDeadline /\ parent.deadline < expiration
    IN  [key       |-> k,
         deadline  |-> IF sooner THEN parent.deadline ELSE expiration,
         timer     |-> ~sooner,
         err       |-> IF parent.err # None THEN parent.err
                       ELSE IF ~sooner /\ expiration <= clk THEN DeadlineExceeded
                       ELSE None,
         cancelled |-> FALSE,
         out       |-> "in",
         outOk     |-> FALSE,
         outNow    |-> 0]

\* a cancel that overwrites the error of a context already done
CancelOneOverwrite(c) == [c EXCEPT !.cancelled = TRUE, !.err = Canceled]

\* the CancelFunc of a context: the first of cancel, timer and parent wins
CancelOne(c) == [c EXCEPT !.cancelled = TRUE,
                          !.err = IF @ = None THEN Canceled ELSE @]

\* the contexts after cancel() of every handle of hs
CancelAll(cs, hs) == [h \in DOMAIN cs |-> IF h \in hs THEN CancelOne(cs[h]) ELSE cs[h]]

\* a parent whose end reaches no child
PropagateNothing(cs, e) == cs

\* a parent that is done ends every child still running with its own error
Propagate(cs, e) == [h \in DOMAIN cs |-> IF cs[h].err = None THEN [cs[h] EXCEPT !.err = e] ELSE cs[h]]

\* --------------------------------------------------------------- the map
EmptyMap == << >>

\* an insert that stores nothing
InsertDropped(m, k, h) == m

\* t.deadlines[k] = d
Insert(m, k, h) == [x \in (DOMAIN m) \cup {k} |-> IF x = k THEN h ELSE m[x]]

\* delete(t.deadlines, k)
Delete(m, k) == [x \in (DOMAIN m) \ {k} |-> m[x]]

\* the handles a map holds
Handles(m) == {m[x] : x \in DOMAIN m}

\* the entries of t.deadlines (a nil map reads as empty)
CurMap == IF deadlines = 0 THEN EmptyMap ELSE heap[deadlines]

\* the map objects something still refers to
Collect(h, roots) == [i \in (DOMAIN h) \cap roots |-> h[i]]

\* the map objects a running range statement refers to, but for thread t
Ranged(t) == {loc[u].it.id : u \in Threads \ {t}} \ {0}

\* make(map[int64]deadline): an id no live map object has
NewId(h) == CHOOSE i \in 1..(NumThreads + 2) : i \notin DOMAIN h


\* ---------------------------------------------------------------- inputs

\* the instants callers ask for: a multiple of the resolution, one that is
\* not, and one two windows later
Ats == {0, 1, 2 * Res}

\* the values of `now` callers pass to Context: the epoch and two windows
\* later, when every bucket of key 0 is past its deadline and its grace
Nows == {0, 2 * Res}

\* those, and two more for the sweep's schedule: just after the epoch, when a
\* sweep is due and finds nothing to remove, and just after the first period
SweepNows == Nows \cup {1, CleanupFactor * Res + 1}

Timeouts == 0..MaxTimeout

\* the durations callers pass to Sleep
Durations == {0, 1, 2 * Res}

\* the times the clock jumps to
Clocks == {1, 2 * Res}

\* the calls of the lock-by-lock specification: a Context call that finds the
\* sweep due and the bucket of key 0 stale, a Timeout that asks for key 0 and a
\* Deadline that asks for a bucket no sweep removes
LockAts == {0}

\* the instants of the key computation's specification, on both sides of the epoch
KeyAts == (-MaxAt)..MaxAt

LockNows == {2 * Res}

LockTimeouts == {0}

LockDeadlines == {2 * Res}

\* Background left nil, set to a context without a deadline, set to one with
NilBackground == [nil |-> TRUE, deadline |-> NoDeadline, err |-> None]

PlainBackground == [nil |-> FALSE, deadline |-> NoDeadline, err |-> None]

TimedBackground == [nil |-> FALSE, deadline |-> BgDeadline, err |-> None]

NoIter == [id |-> 0, seen |-> {}, hmax |-> 0]

\* the locals of a thread that is in no call
IdleLoc == [op |-> "", at |-> 0, now |-> 0, k |-> 0, d |-> 0, ok |-> FALSE,
            slow |-> FALSE, made |-> FALSE, ct |-> -1, it |-> NoIter,
            ck |-> 0, cd |-> 0, snap |-> {}, seq |-> 0, quiet |-> FALSE,
            pre |-> {}, tagged |-> FALSE,
            duration |-> 0, doneAtCall |-> FALSE, fired |-> FALSE, closed |-> FALSE,
            err |-> None]

\* a Timeline just constructed, with one of the Backgrounds bs
InitWith(bs) ==
    /\ Resolution = Res
    /\ Background \in bs
    /\ mutex = [w |-> 0, readers |-> {}]
    /\ deadlines = 0
    /\ heap = << >>
    /\ cleanupLock = 0
    /\ cleanupTime = 0
    /\ ctx = << >>
    /\ clock = 0
    /\ pc = [t \in Threads |-> "idle"]
    /\ loc = [t \in Threads |-> IdleLoc]
    /\ calls = 0
    /\ cancels = 0
    /\ issued = {}
    /\ returned = {}
    /\ sweeps = << >>
    /\ maxNow = 0
    /\ mono = TRUE
    /\ fresh = [armed |-> FALSE, base |-> 0, h |-> 0, alone |-> FALSE]
    /\ bgMark = [done |-> FALSE, at |-> 0, n |-> 0]

Max(a, b) == IF a >= b THEN a ELSE b

Others(t) == Threads \ {t}

Init == InitWith({NilBackground, TimedBackground})

\* threads are interchangeable: a new call is made by the lowest idle one
Caller(t) == pc[t] = "idle" /\ \A u \in 1..(t - 1) : pc[u] # "idle"

\* ------------------------------------------------------------ sync.RWMutex

\* an RLock that also waits for the sweep gate
CanRLockNoSweep == mutex.w = 0 /\ cleanupLock = 0

\* RLock succeeds when no writer holds the lock or has announced itself
CanRLock == mutex.w = 0

RLocked(t) == [mutex EXCEPT !.readers = @ \cup {t}]

\* an RUnlock that releases nothing
RUnlockedNot(t) == mutex

RUnlocked(t) == [mutex EXCEPT !.readers = @ \ {t}]

\* Lock first takes the writers' mutex and turns new readers away ...
CanAnnounce == mutex.w = 0

Announced(t) == [mutex EXCEPT !.w = t]

\* ... then waits for the readers inside to leave
CanLock(t) == mutex.w = t /\ mutex.readers = {}

Unlocked == [mutex EXCEPT !.w = 0]

\* nobody holds or waits for the lock
Free == mutex.w = 0 /\ mutex.readers = {}

\* Every critical section of the code is a lock call, a few statements on the
\* map and the unlock call.  An action of a critical section takes `whole`:
\* TRUE runs the section in one step, from a free lock to a free lock (Spec);
\* FALSE takes the lock calls apart into steps of their own (LockSpec).

\* --------------------------------------------------------------- Context

\* a call of Context(at, now): lines 90-97 compute the bucket key
Enter(t, op, at, now) ==
    /\ Caller(t)
    /\ calls - cancels < MaxCalls
    /\ calls' = calls + 1
    /\ LET q == \A u \in Others(t) : pc[u] = "idle"
       IN  loc' = [loc EXCEPT ![t] = [IdleLoc EXCEPT
                      !.op = op, !.at = at, !.now = now,
                      !.k = Key(at, resolution),
                      !.seq = calls + 1, !.quiet = q,
                      !.pre = IF q THEN Handles(CurMap) ELSE {},
                      !.tagged = fresh.armed]]
    /\ fresh' = [fresh EXCEPT !.armed = FALSE]
    /\ maxNow' = Max(maxNow, now)
    /\ mono' = (mono /\ now >= maxNow)
    /\ pc' = [pc EXCEPT ![t] = "rlock"]
    /\ UNCHANGED <<tl, ctx, clock, cancels, issued, returned, sweeps, bgMark>>

\* Timeline.Timeout
Timeout(t, timeouts) == \E timeout \in timeouts : Enter(t, "Timeout", clock + timeout, clock)

\* Timeline.Deadline
Deadline(t, ats) == \E deadline \in ats : Enter(t, "Deadline", deadline, clock)

\* Timeline.Context called directly
Context(t, ats, nows) == \E at \in ats, now \in nows : Enter(t, "Context", at, now)

\* the position after the fast path's test
AfterFast(ok) == IF ok THEN "ret" ELSE "lock"

\* lines 99-105: the lookup under the shared lock; a hit returns
FastLookup(t, whole) ==
    /\ pc[t] = "rlock"
    /\ CanRLock
    /\ LET k == loc[t].k
           hit == k \in DOMAIN CurMap
       IN  /\ loc' = [loc EXCEPT ![t].ok = hit,
                                 ![t].d = IF hit THEN CurMap[k] ELSE 0]
           /\ issued' = IF hit THEN issued \cup {[key |-> k, h |-> CurMap[k], swept |-> FALSE]}
                        ELSE issued
           /\ mutex' = IF whole THEN mutex ELSE RLocked(t)
           /\ pc' = [pc EXCEPT ![t] = IF whole THEN AfterFast(hit) ELSE "runlock"]
    /\ UNCHANGED <<Resolution, Background, deadlines, heap, cleanupLock, cleanupTime,
                   ctx, clock, calls, cancels, returned, sweeps, maxNow, mono, fresh, bgMark>>

\* line 101: RUnlock as a step of its own
FastUnlock(t) ==
    /\ pc[t] = "runlock"
    /\ mutex' = RUnlocked(t)
    /\ pc' = [pc EXCEPT ![t] = AfterFast(loc[t].ok)]
    /\ UNCHANGED <<Resolution, Background, deadlines, heap, cleanupLock, cleanupTime,
                   ctx, clock, loc, hist>>

\* line 110: Lock as a step of its own
SlowLock(t) ==
    /\ pc[t] = "lock"
    /\ CanAnnounce
    /\ mutex' = Announced(t)
    /\ pc' = [pc EXCEPT ![t] = "create"]
    /\ UNCHANGED <<Resolution, Background, deadlines, heap, cleanupLock, cleanupTime,
                   ctx, clock, loc, hist>>

\* a second look that never finds the entry
NeverRecheck(k) == FALSE

\* line 111: whether the entry is there under the exclusive lock
Recheck(k) == k \in DOMAIN CurMap

\* lines 110-119: under the exclusive lock, look again and create the entry
SlowCreate(t, whole) ==
    /\ pc[t] = IF whole THEN "lock" ELSE "create"
    /\ IF whole THEN Free ELSE CanLock(t)
    /\ LET k == loc[t].k
       IN  IF Recheck(k)
           THEN /\ loc' = [loc EXCEPT ![t].d = CurMap[k], ![t].slow = TRUE]
                /\ issued' = issued \cup {[key |-> k, h |-> CurMap[k], swept |-> FALSE]}
                /\ UNCHANGED <<ctx, deadlines, heap>>
           ELSE \E j \in jitter(resolution) :
                LET h == Len(ctx) + 1
                    id == IF deadlines = 0 THEN NewId(heap) ELSE deadlines
                    m == IF deadlines = 0 THEN EmptyMap ELSE heap[deadlines]
                IN  /\ ctx' = Append(ctx, makeDeadline(background, k + j, clock, k))
                    /\ deadlines' = id
                    /\ heap' = [i \in (DOMAIN heap) \cup {id} |->
                                   IF i = id THEN Insert(m, k, h) ELSE heap[i]]
                    /\ loc' = [loc EXCEPT ![t].d = h, ![t].slow = TRUE, ![t].made = TRUE]
                    /\ issued' = issued \cup {[key |-> k, h |-> h, swept |-> FALSE]}
    /\ pc' = [pc EXCEPT ![t] = IF whole THEN "load" ELSE "unlock"]
    /\ UNCHANGED <<Resolution, Background, mutex, cleanupLock, cleanupTime, clock,
                   calls, cancels, returned, sweeps, maxNow, mono, fresh, bgMark>>

\* line 119: Unlock as a step of its own
SlowUnlock(t) ==
    /\ pc[t] = "unlock"
    /\ mutex' = Unlocked
    /\ pc' = [pc EXCEPT ![t] = "load"]
    /\ UNCHANGED <<Resolution, Background, deadlines, heap, cleanupLock, cleanupTime,
                   ctx, clock, loc, hist>>

\* line 121: load the next-sweep-due time and compare it with now
LoadCleanupTime(t) ==
    /\ pc[t] = "load"
    /\ loc' = [loc EXCEPT ![t].ct = cleanupTime]
    /\ pc' = [pc EXCEPT ![t] = IF CleanupDue(cleanupTime, loc[t].now) THEN "try" ELSE "ret"]
    /\ UNCHANGED <<tl, ctx, clock, hist>>

\* a gate taken with a plain store, whatever the flag holds
TryLockCleanupBlind(t) ==
    /\ pc[t] = "try"
    /\ cleanupLock' = 1
    /\ pc' = [pc EXCEPT ![t] = "store"]
    /\ UNCHANGED <<Resolution, Background, mutex, deadlines, heap, cleanupTime,
                   ctx, clock, loc, hist>>

\* line 122: the compare-and-swap of the sweep gate
TryLockCleanup(t) ==
    /\ pc[t] = "try"
    /\ IF cleanupLock = 0
       THEN /\ cleanupLock' = 1
            /\ pc' = [pc EXCEPT ![t] = "store"]
       ELSE /\ UNCHANGED cleanupLock
            /\ pc' = [pc EXCEPT ![t] = "ret"]
    /\ UNCHANGED <<Resolution, Background, mutex, deadlines, heap, cleanupTime,
                   ctx, clock, loc, hist>>

\* line 123: publish the next sweep time, computed from the value loaded
StoreCleanupTime(t) ==
    /\ pc[t] = "store"
    /\ cleanupTime' = nextCleanupTime(loc[t].ct)
    /\ sweeps' = Append(sweeps, loc[t].now)
    /\ pc' = [pc EXCEPT ![t] = "range"]
    /\ UNCHANGED <<Resolution, Background, mutex, deadlines, heap, cleanupLock,
                   ctx, clock, loc, calls, cancels, issued, returned, maxNow, mono,
                   fresh, bgMark>>

\* --------------------------------------------------------------- cleanup

\* the entries of the map object iterator it ranges over
RangeMap(it) == IF it.id = 0 THEN EmptyMap ELSE heap[it.id]

\* the entries the range statement can still produce: those it has not
\* produced yet
Pending(it) == {k \in DOMAIN RangeMap(it) : RangeMap(it)[k] \notin it.seen}

\* of those, the entries the range statement must produce: the ones that were
\* in the map when the range began (an entry inserted during the iteration may
\* be produced or skipped)
Owed(it) == {k \in Pending(it) : RangeMap(it)[k] <= it.hmax}

\* lines 157-159: where the loop body goes for the entry of handle h
AfterRead(t, h) == IF Expired(loc[t].now, ctx[h].deadline) THEN "cancel" ELSE "next"

\* one step of `for k, d := range t.deadlines`, made holding the shared lock:
\* the next entry in any order, or the end of the loop
Advance(t, it, whole) ==
    \/ \E k \in Pending(it) :
          LET h == RangeMap(it)[k]
          IN  /\ loc' = [loc EXCEPT ![t].it = [it EXCEPT !.seen = @ \cup {h}],
                                    ![t].ck = k, ![t].cd = h]
              /\ pc' = [pc EXCEPT ![t] = IF whole THEN AfterRead(t, h) ELSE "body"]
              /\ UNCHANGED heap
    \/ /\ Owed(it) = {}
       /\ IF whole
          THEN /\ loc' = [loc EXCEPT ![t].it = NoIter, ![t].ck = 0, ![t].cd = 0]
               /\ heap' = Collect(heap, {deadlines} \cup Ranged(t))
               /\ pc' = [pc EXCEPT ![t] = "release"]
          ELSE /\ loc' = [loc EXCEPT ![t].it = it]
               /\ pc' = [pc EXCEPT ![t] = "end"]
               /\ UNCHANGED heap

\* lines 154-157: RLock, the range statement reads t.deadlines once and
\* produces its first entry
CleanupRange(t, whole) ==
    /\ pc[t] = "range"
    /\ CanRLock
    /\ mutex' = IF whole THEN mutex ELSE RLocked(t)
    /\ Advance(t, [id |-> deadlines, seen |-> {}, hmax |-> Len(ctx)], whole)
    /\ UNCHANGED <<Resolution, Background, deadlines, cleanupLock, cleanupTime,
                   ctx, clock, hist>>

\* line 166 and the next iteration of line 156
CleanupNext(t, whole) ==
    /\ pc[t] = "next"
    /\ CanRLock
    /\ mutex' = IF whole THEN mutex ELSE RLocked(t)
    /\ Advance(t, loc[t].it, whole)
    /\ UNCHANGED <<Resolution, Background, deadlines, cleanupLock, cleanupTime,
                   ctx, clock, hist>>

\* lines 157-159: RUnlock as a step of its own, then the test of the deadline
CleanupBody(t) ==
    /\ pc[t] = "body"
    /\ mutex' = RUnlocked(t)
    /\ pc' = [pc EXCEPT ![t] = AfterRead(t, loc[t].cd)]
    /\ UNCHANGED <<Resolution, Background, deadlines, heap, cleanupLock, cleanupTime,
                   ctx, clock, loc, hist>>

\* line 160: d.cancel()
CleanupCancel(t) ==
    /\ pc[t] = "cancel"
    /\ ctx' = CancelAll(ctx, {loc[t].cd})
    /\ pc' = [pc EXCEPT ![t] = "dlock"]
    /\ UNCHANGED <<tl, clock, loc, hist>>

\* line 161: Lock as a step of its own
CleanupLock(t) ==
    /\ pc[t] = "dlock"
    /\ CanAnnounce
    /\ mutex' = Announced(t)
    /\ pc' = [pc EXCEPT ![t] = "delete"]
    /\ UNCHANGED <<Resolution, Background, deadlines, heap, cleanupLock, cleanupTime,
                   ctx, clock, loc, hist>>

\* the contexts after the entry of handle h left the map at sweep time now
Left(cs, h, how, now) ==
    [cs EXCEPT ![h].out = how, ![h].outOk = cs[h].cancelled, ![h].outNow = now]

\* lines 161-163: delete(t.deadlines, k) removes whatever t.deadlines holds
\* under k now; on a nil map and on a missing key it does nothing
CleanupDelete(t, whole) ==
    /\ pc[t] = IF whole THEN "dlock" ELSE "delete"
    /\ IF whole THEN Free ELSE CanLock(t)
    /\ LET k == loc[t].ck
       IN  IF k \in DOMAIN CurMap
           THEN /\ heap' = [heap EXCEPT ![deadlines] = Delete(@, k)]
                /\ ctx' = Left(ctx, CurMap[k], "sweep", loc[t].now)
                /\ issued' = {[r EXCEPT !.swept = (r.swept \/ r.key = k)] : r \in issued}
           ELSE UNCHANGED <<heap, ctx, issued>>
    /\ pc' = [pc EXCEPT ![t] = IF whole THEN "next" ELSE "dunlock"]
    /\ UNCHANGED <<Resolution, Background, mutex, deadlines, cleanupLock, cleanupTime,
                   clock, loc, calls, cancels, returned, sweeps, maxNow, mono, fresh,
                   bgMark>>

\* line 163: Unlock as a step of its own
CleanupUnlock(t) ==
    /\ pc[t] = "dunlock"
    /\ mutex' = Unlocked
    /\ pc' = [pc EXCEPT ![t] = "next"]
    /\ UNCHANGED <<Resolution, Background, deadlines, heap, cleanupLock, cleanupTime,
                   ctx, clock, loc, hist>>

\* line 169: the last RUnlock as a step of its own; the map object the loop
\* ranged over is let go
CleanupEnd(t) ==
    /\ pc[t] = "end"
    /\ mutex' = RUnlocked(t)
    /\ loc' = [loc EXCEPT ![t].it = NoIter, ![t].ck = 0, ![t].cd = 0]
    /\ heap' = Collect(heap, {deadlines} \cup Ranged(t))
    /\ pc' = [pc EXCEPT ![t] = "release"]
    /\ UNCHANGED <<Resolution, Background, deadlines, cleanupLock, cleanupTime,
                   ctx, clock, hist>>

\* line 125: unlockCleanup
UnlockCleanup(t) ==
    /\ pc[t] = "release"
    /\ cleanupLock' = 0
    /\ pc' = [pc EXCEPT ![t] = "ret"]
    /\ UNCHANGED <<Resolution, Background, mutex, deadlines, heap, cleanupTime,
                   ctx, clock, loc, hist>>

\* no call but this one has run since this one began, and none is running
Alone(t) == loc[t].quiet /\ calls = loc[t].seq /\ \A u \in Others(t) : pc[u] = "idle"

\* lines 104 and 129: return d.context
Return(t) ==
    /\ pc[t] = "ret"
    /\ returned' = returned \cup {loc[t].d}
    /\ fresh' = IF loc[t].tagged THEN [fresh EXCEPT !.h = loc[t].d, !.alone = Alone(t)] ELSE fresh
    /\ pc' = [pc EXCEPT ![t] = "idle"]
    /\ loc' = [loc EXCEPT ![t] = IdleLoc]
    /\ UNCHANGED <<tl, ctx, clock, calls, cancels, issued, sweeps, maxNow, mono, bgMark>>

\* ---------------------------------------------------------------- Cancel

\* a call of Timeline.Cancel
CancelCall(t) ==
    /\ Caller(t)
    /\ cancels < MaxCancels
    /\ calls' = calls + 1
    /\ cancels' = cancels + 1
    /\ loc' = [loc EXCEPT ![t] = [IdleLoc EXCEPT
                  !.op = "Cancel", !.seq = calls + 1, !.snap = returned,
                  !.quiet = \A u \in Others(t) : pc[u] = "idle"]]
    /\ pc' = [pc EXCEPT ![t] = "c_lock"]
    /\ UNCHANGED <<tl, ctx, clock, issued, returned, sweeps, maxNow, mono,
                   fresh, bgMark>>

\* line 64: Lock as a step of its own
CancelLock(t) ==
    /\ pc[t] = "c_lock"
    /\ CanAnnounce
    /\ mutex' = Announced(t)
    /\ pc' = [pc EXCEPT ![t] = "c_body"]
    /\ UNCHANGED <<Resolution, Background, deadlines, heap, cleanupLock, cleanupTime,
                   ctx, clock, loc, hist>>

\* a Cancel that keeps the map
ClearedKept == deadlines

\* line 70: t.deadlines = nil
Cleared == 0

\* lines 64-71: cancel every entry, then drop the map; a range statement that
\* is over the old map object keeps it alive, entries and all
CancelBody(t, whole) ==
    /\ pc[t] = IF whole THEN "c_lock" ELSE "c_body"
    /\ IF whole THEN Free ELSE CanLock(t)
    /\ ctx' = [h \in DOMAIN ctx |->
                 IF h \in Handles(CurMap)
                 THEN [CancelOne(ctx[h]) EXCEPT !.out = "Cancel", !.outOk = TRUE]
                 ELSE ctx[h]]
    /\ deadlines' = Cleared
    /\ heap' = Collect(heap, {Cleared} \cup Ranged(t))
    /\ issued' = {}
    /\ pc' = [pc EXCEPT ![t] = IF whole THEN "c_ret" ELSE "c_unlock"]
    /\ UNCHANGED <<Resolution, Background, mutex, cleanupLock, cleanupTime, clock, loc,
                   calls, cancels, returned, sweeps, maxNow, mono, fresh, bgMark>>

\* line 71: Unlock as a step of its own
CancelUnlock(t) ==
    /\ pc[t] = "c_unlock"
    /\ mutex' = Unlocked
    /\ pc' = [pc EXCEPT ![t] = "c_ret"]
    /\ UNCHANGED <<Resolution, Background, deadlines, heap, cleanupLock, cleanupTime,
                   ctx, clock, loc, hist>>

\* line 72: Cancel returns
CancelReturn(t) ==
    /\ pc[t] = "c_ret"
    /\ fresh' = IF Alone(t) THEN [armed |-> TRUE, base |-> Len(ctx), h |-> 0, alone |-> FALSE] ELSE fresh
    /\ pc' = [pc EXCEPT ![t] = "idle"]
    /\ loc' = [loc EXCEPT ![t] = IdleLoc]
    /\ UNCHANGED <<tl, ctx, clock, calls, cancels, issued, returned, sweeps, maxNow,
                   mono, bgMark>>

\* ------------------------------------------------- the clock and contexts

\* time passes
Tick(clocks) ==
    /\ \E c \in clocks : c > clock /\ clock' = c
    /\ UNCHANGED <<tl, ctx, pc, loc, hist>>

\* the timer of a context fires at or after its deadline
Expire ==
    /\ \E h \in DOMAIN ctx :
          /\ ctx[h].timer
          /\ ctx[h].err = None
          /\ clock >= ctx[h].deadline
          /\ ctx' = [ctx EXCEPT ![h].err = DeadlineExceeded]
    /\ UNCHANGED <<tl, clock, pc, loc, hist>>

\* the configured Background reaches its own deadline
BackgroundExpire ==
    /\ ~Background.nil
    /\ Background.deadline # NoDeadline
    /\ Background.err = None
    /\ clock >= Background.deadline
    /\ Background' = [Background EXCEPT !.err = DeadlineExceeded]
    /\ ctx' = Propagate(ctx, DeadlineExceeded)
    /\ UNCHANGED <<Resolution, mutex, deadlines, heap, cleanupLock, cleanupTime,
                   clock, pc, loc, hist>>

\* the owner of the configured Background cancels it
BackgroundCancel ==
    /\ ~Background.nil
    /\ Background.err = None
    /\ Background' = [Background EXCEPT !.err = Canceled]
    /\ ctx' = Propagate(ctx, Canceled)
    /\ bgMark' = [done |-> TRUE, at |-> clock, n |-> Len(ctx)]
    /\ UNCHANGED <<Resolution, mutex, deadlines, heap, cleanupLock, cleanupTime,
                   clock, pc, loc, calls, cancels, issued, returned, sweeps, maxNow,
                   mono, fresh>>

\* ----------------------------------------------------------------- Sleep

\* ctx.Err() of the context of handle h; handle 0 is context.Background()
Err(h) == IF h = 0 THEN None ELSE ctx[h].err

\* the cases of the select of Sleep that can proceed: timer.C once the
\* duration has passed since NewTimer, ctx.Done() once the context is done
Ready(t) ==
    {c \in {"timer"} : clock >= loc[t].at} \cup {c \in {"ctx"} : Err(loc[t].d) # None}

\* a call of Sleep(ctx, duration) with a context a Timeline call returned or
\* with context.Background(); line 12: time.NewTimer(duration)
SleepCall(t) ==
    /\ Caller(t)
    /\ calls - cancels < MaxCalls
    /\ calls' = calls + 1
    /\ \E h \in returned \cup {0}, duration \in Durations :
          loc' = [loc EXCEPT ![t] = [IdleLoc EXCEPT
                     !.op = "Sleep", !.d = h, !.duration = duration,
                     !.now = clock, !.at = clock + duration,
                     !.seq = calls + 1, !.doneAtCall = (Err(h) # None)]]
    /\ pc' = [pc EXCEPT ![t] = "select"]
    /\ UNCHANGED <<tl, ctx, clock, cancels, issued, returned, sweeps, maxNow, mono,
                   fresh, bgMark>>

\* lines 13-17: the select waits until a case can proceed and takes one of
\* those that can
SleepSelect(t) ==
    /\ pc[t] = "select"
    /\ \E c \in Ready(t) :
          loc' = [loc EXCEPT ![t].fired = (clock >= loc[t].at),
                             ![t].closed = (Err(loc[t].d) # None),
                             ![t].err = IF c = "ctx" THEN Err(loc[t].d) ELSE None]
    /\ pc' = [pc EXCEPT ![t] = "s_ret"]
    /\ UNCHANGED <<tl, ctx, clock, hist>>

\* lines 18-19: timer.Stop() and return
SleepReturn(t) ==
    /\ pc[t] = "s_ret"
    /\ pc' = [pc EXCEPT ![t] = "idle"]
    /\ loc' = [loc EXCEPT ![t] = IdleLoc]
    /\ UNCHANGED <<tl, ctx, clock, hist>>

\* ------------------------------------------------------ the specification

\* the steps of a thread in Context, every critical section being one step
Steps(t) ==
    \/ FastLookup(t, TRUE)
    \/ SlowCreate(t, TRUE)
    \/ LoadCleanupTime(t) \/ TryLockCleanup(t) \/ StoreCleanupTime(t)
    \/ CleanupRange(t, TRUE) \/ CleanupNext(t, TRUE)
    \/ CleanupCancel(t)
    \/ CleanupDelete(t, TRUE)
    \/ UnlockCleanup(t) \/ Return(t)

\* the steps of a thread in Cancel, the critical section being one step
CancelSteps(t) == CancelBody(t, TRUE) \/ CancelReturn(t)

\* callers that pass their own `now` to Context, and callers of Cancel
Next ==
    \E t \in Threads : Context(t, Ats, Nows) \/ CancelCall(t) \/ Steps(t) \/ CancelSteps(t)

Spec == Init /\ [][Next]_vars

\* callers of Context alone, over the nows that exercise the sweep's schedule
NextSweep ==
    \E t \in Threads : Context(t, Ats, SweepNows) \/ Steps(t)

SweepSpec == Init /\ [][NextSweep]_vars

\* callers of Timeout and Deadline, which read the clock, while time passes,
\* timers fire and the owner of the Background cancels it
NextWall ==
    \/ \E t \in Threads : Timeout(t, Timeouts) \/ Deadline(t, Ats) \/ Steps(t)
    \/ Tick(Clocks)
    \/ Expire
    \/ BackgroundExpire
    \/ BackgroundCancel

WallSpec == InitWith({NilBackground, PlainBackground, TimedBackground}) /\ [][NextWall]_vars

\* the steps of a thread in a call, every lock and unlock call a step of its own
LockSteps(t) ==
    \/ FastLookup(t, FALSE) \/ FastUnlock(t)
    \/ SlowLock(t) \/ SlowCreate(t, FALSE) \/ SlowUnlock(t)
    \/ LoadCleanupTime(t) \/ TryLockCleanup(t) \/ StoreCleanupTime(t)
    \/ CleanupRange(t, FALSE) \/ CleanupNext(t, FALSE) \/ CleanupBody(t)
    \/ CleanupCancel(t)
    \/ CleanupLock(t) \/ CleanupDelete(t, FALSE) \/ CleanupUnlock(t)
    \/ CleanupEnd(t)
    \/ UnlockCleanup(t) \/ Return(t)
    \/ CancelLock(t) \/ CancelBody(t, FALSE) \/ CancelUnlock(t) \/ CancelReturn(t)

\* callers of all four operations, lock call by lock call
NextLock ==
    \E t \in Threads :
        \/ Context(t, LockAts, LockNows)
        \/ Timeout(t, LockTimeouts)
        \/ Deadline(t, LockDeadlines)
        \/ CancelCall(t)
        \/ LockSteps(t)

\* the scheduler runs every goroutine that can take a step
LockSpec == InitWith({NilBackground}) /\ [][NextLock]_vars /\ \A t \in Threads : WF_vars(LockSteps(t))

\* callers of Context over instants before and after the epoch
NextKey ==
    \E t \in Threads : Context(t, KeyAts, Nows) \/ Steps(t)

KeySpec == InitWith({NilBackground}) /\ [][NextKey]_vars
\* callers of Timeout and of Sleep on the contexts Timeout returned, while time
\* passes, timers fire and the owner of the Background cancels it
NextSleep ==
    \/ \E t \in Threads :
          \/ Timeout(t, Timeouts) \/ Steps(t)
          \/ SleepCall(t) \/ SleepSelect(t) \/ SleepReturn(t)
    \/ Tick(Clocks)
    \/ Expire
    \/ BackgroundCancel

SleepSpec == InitWith({PlainBackground}) /\ [][NextSleep]_vars

\* ------------------------------------------------------------ the claims

\* the bucket keys contexts were made for
Keys == {ctx[h].key : h \in DOMAIN ctx}

\* the contexts made for key k
MadeFor(k) == {h \in DOMAIN ctx : ctx[h].key = k}

\* C1 as stated: of the handles Context lookups produced with no Cancel()
\* between them, two for the same bucket key are the same handle and two for
\* different keys are different handles
C1_SameKeySameHandle ==
    \A a, b \in issued : (a.key = b.key) <=> (a.h = b.h)

\* C1 amended: with no Cancel() between them and no removal of that key by a
\* cleanup sweep between them, two lookups for the same bucket key produce the
\* same handle; two lookups for different keys produce different handles
C1_SameKeySameHandleUnlessSwept ==
    \A a, b \in issued :
       /\ a.key # b.key => a.h # b.h
       /\ (a.key = b.key /\ ~a.swept /\ ~b.swept) => a.h = b.h

\* a call hits the fast path and returns the handle an earlier call returned
C1_Witness ==
    \E t \in Threads :
       /\ pc[t] = "ret"
       /\ loc[t].ok
       /\ loc[t].d \in returned
       /\ cancels = 0

\* C2: when Cancel() returns, every context a call returned before that
\* Cancel() was called, and whose deadline the clock has not reached, reports
\* Canceled
C2_CancelCancelsEveryLiveContext ==
    \A t \in Threads :
       pc[t] = "c_ret" =>
          \A h \in loc[t].snap :
             clock < ctx[h].deadline => ctx[h].err = Canceled

\* C3: with a Background that has no deadline, the entry stored under key k is
\* the context made for k, every context made for k has a deadline d with
\* k <= d < k + resolution, a deadline never changes once the context is made,
\* and the context a call returns for instant `at` has a deadline >= at
C3_DeadlineInBucketWindow ==
    /\ [](Background.deadline = NoDeadline =>
            /\ \A k \in DOMAIN CurMap : ctx[CurMap[k]].key = k
            /\ \A h \in DOMAIN ctx :
                  /\ ctx[h].key <= ctx[h].deadline
                  /\ ctx[h].deadline < ctx[h].key + Resolution
            /\ \A t \in Threads :
                  pc[t] = "ret" => ctx[loc[t].d].deadline >= loc[t].at)
    /\ [][\A h \in DOMAIN ctx : ctx'[h].deadline = ctx[h].deadline]_vars

\* a second caller gets, on the fast path, a context whose jitter is not zero
\* for an instant that is not a multiple of the resolution
C3_Witness ==
    \E t \in Threads :
       /\ pc[t] = "ret"
       /\ loc[t].ok
       /\ Background.deadline = NoDeadline
       /\ loc[t].at < loc[t].k
       /\ ctx[loc[t].d].deadline > loc[t].k


\* C4: the context a Timeout or Deadline call returns for the requested
\* instant `at` has a deadline d with at <= d <= at + resolution
C4_DeadlineWithinOneResolution ==
    \A t \in Threads :
       (pc[t] = "ret" /\ loc[t].op \in {"Timeout", "Deadline"}) =>
          /\ loc[t].at <= ctx[loc[t].d].deadline
          /\ ctx[loc[t].d].deadline <= loc[t].at + resolution

\* C5 as stated: while no Cancel() was called and no caller's `now` is later
\* than key k, the context for k is made once and every lookup for k produces
\* that one context, however the callers interleave
C5_CreatedOnce ==
    \A k \in Keys :
       (cancels = 0 /\ maxNow <= k) =>
          /\ Cardinality(MadeFor(k)) = 1
          /\ \A a \in issued : a.key = k => a.h \in MadeFor(k)

\* C5 amended: the same, for a Timeline whose Background has no deadline of
\* its own
C5_CreatedOnceNoBackgroundDeadline ==
    \A k \in Keys :
       (cancels = 0 /\ maxNow <= k /\ Background.deadline = NoDeadline) =>
          /\ Cardinality(MadeFor(k)) = 1
          /\ \A a \in issued : a.key = k => a.h \in MadeFor(k)

\* two callers missed the same key on the fast path, one of them made the
\* context under the exclusive lock and both are about to return it
C5_Witness ==
    \E t, u \in Threads :
       /\ t # u
       /\ pc[t] = "ret" /\ pc[u] = "ret"
       /\ loc[t].slow /\ loc[u].slow
       /\ loc[t].made /\ ~loc[u].made
       /\ loc[t].k = loc[u].k
       /\ loc[t].d = loc[u].d
       /\ cancels = 0
       /\ maxNow <= loc[t].k
       /\ Background.deadline = NoDeadline

\* C6: once the configured Background is cancelled, no context the Timeline
\* made is still running; every context made before whose deadline was later
\* than the time of the cancellation reports Canceled, and so does every
\* context made afterwards
C6_BackgroundCancelReachesEveryBucket ==
    Background.err = Canceled =>
       \A h \in DOMAIN ctx :
          /\ ctx[h].err # None
          /\ (h <= bgMark.n /\ ctx[h].deadline > bgMark.at) => ctx[h].err = Canceled
          /\ h > bgMark.n => ctx[h].err = Canceled

\* the Background was cancelled while a bucket that no Timeline operation had
\* cancelled was short of its deadline, and a bucket was made afterwards; both
\* report Canceled
C6_Witness ==
    /\ Background.err = Canceled
    /\ bgMark.done
    /\ \E h \in DOMAIN ctx :
          /\ h <= bgMark.n
          /\ ctx[h].deadline > bgMark.at
          /\ ~ctx[h].cancelled
          /\ ctx[h].err = Canceled
    /\ \E h \in DOMAIN ctx :
          /\ h > bgMark.n
          /\ ~ctx[h].cancelled
          /\ ctx[h].err = Canceled

\* C7: (a) when Cancel() returns with no other call in progress the map holds
\* no entry; (b) the context the next Context call returns was made after that
\* Cancel(), and when that call asked for an instant not before its `now`, ran
\* with no other call in progress and the Background has no deadline, nothing
\* has cancelled the context, the map holds it, and it is not done if the
\* instant is after the clock; (c) a Cancel() called after such a call returned
\* has, when it returns, left that context cancelled
C7_EmptyAndReusableAfterCancel ==
    /\ \A t \in Threads :
          (pc[t] = "c_ret" /\ Alone(t)) => DOMAIN CurMap = {}
    /\ fresh.h # 0 => fresh.h > fresh.base
    /\ \A t \in Threads :
          (pc[t] = "ret" /\ loc[t].tagged) =>
             /\ loc[t].d > fresh.base
             /\ (Alone(t) /\ loc[t].at >= loc[t].now /\ Background.deadline = NoDeadline) =>
                   /\ ~ctx[loc[t].d].cancelled
                   /\ loc[t].k \in DOMAIN CurMap
                   /\ CurMap[loc[t].k] = loc[t].d
                   /\ loc[t].at > clock => ctx[loc[t].d].err = None
    /\ \A t \in Threads :
          (pc[t] = "c_ret" /\ fresh.h # 0 /\ fresh.alone /\ fresh.h \in loc[t].snap) =>
             /\ ctx[fresh.h].cancelled
             /\ ctx[fresh.h].err # None

\* a Cancel() ran alone, the next Context call made a context, and a later
\* Cancel() has just cancelled it
C7_Witness ==
    \E t \in Threads :
       /\ pc[t] = "c_ret"
       /\ fresh.h # 0
       /\ fresh.alone
       /\ fresh.h \in loc[t].snap
       /\ ctx[fresh.h].out = "Cancel"
       /\ ctx[fresh.h].err = Canceled
       /\ DOMAIN CurMap = {}

\* the contexts of hs all lie more than one resolution before now
AllStale(hs, now) == \A h \in hs : now > ctx[h].deadline + Resolution

\* C8 as stated: a Context(at, now) call with at >= now that ran alone, after
\* calls with non-decreasing `now`, and found every cached bucket more than
\* one resolution past its deadline, leaves the map holding the bucket of the
\* request alone, every stale bucket cancelled
C8_StaleBucketsReclaimed ==
    \A t \in Threads :
       (/\ pc[t] = "ret"
        /\ Alone(t)
        /\ mono
        /\ loc[t].at >= loc[t].now
        /\ AllStale(loc[t].pre, loc[t].now)) =>
          /\ DOMAIN CurMap = {loc[t].k}
          /\ \A h \in loc[t].pre : ctx[h].cancelled

\* C8 amended: when, besides, the next-sweep-due time is before `now`, the call
\* leaves no bucket in the map but the bucket of the request (and leaves that
\* one when the Background has no deadline), every stale bucket cancelled and
\* removed by the sweep
C8_StaleBucketsReclaimedWhenSweepDue ==
    \A t \in Threads :
       (/\ pc[t] = "ret"
        /\ Alone(t)
        /\ mono
        /\ loc[t].at >= loc[t].now
        /\ AllStale(loc[t].pre, loc[t].now)
        /\ loc[t].ct # -1
        /\ loc[t].ct < loc[t].now) =>
          /\ DOMAIN CurMap \subseteq {loc[t].k}
          /\ Background.deadline = NoDeadline => DOMAIN CurMap = {loc[t].k}
          /\ \A h \in loc[t].pre : ctx[h].cancelled /\ ctx[h].out = "sweep"

\* a call that ran alone found a stale bucket and a sweep due, and returns with
\* the map holding its own bucket alone
C8_Witness ==
    \E t \in Threads :
       /\ pc[t] = "ret"
       /\ Alone(t)
       /\ mono
       /\ loc[t].at >= loc[t].now
       /\ loc[t].pre # {}
       /\ AllStale(loc[t].pre, loc[t].now)
       /\ loc[t].ct # -1 /\ loc[t].ct < loc[t].now
       /\ DOMAIN CurMap = {loc[t].k}
       /\ \A h \in loc[t].pre : ctx[h].out = "sweep"

\* C9: the `now` values of any two sweeps are at least 100 resolutions apart
C9_SweepsThrottled ==
    \A i, j \in DOMAIN sweeps :
       i < j => \/ sweeps[j] - sweeps[i] >= CleanupFactor * Resolution
                \/ sweeps[i] - sweeps[j] >= CleanupFactor * Resolution

\* C10: under fair scheduling every call that has begun returns
C10_EveryCallReturns ==
    \A t \in Threads : (pc[t] # "idle") ~> (pc[t] = "idle")

\* a sweep holds the exclusive lock to remove an entry while another call has
\* missed on the fast path and waits for the exclusive lock
C10_Witness ==
    \E t, u \in Threads :
       /\ t # u
       /\ pc[t] = "dunlock"
       /\ mutex.w = t
       /\ pc[u] \in {"lock", "c_lock"}
       /\ cleanupLock = 1

\* C16: the key of a call for instant `at` is a multiple of the resolution with
\* at <= key < at + resolution (the smallest multiple that is >= at)
C16_KeyIsCeiling ==
    \A t \in Threads :
       (pc[t] # "idle" /\ loc[t].op = "Context") =>
          /\ loc[t].k % resolution = 0
          /\ loc[t].at <= loc[t].k
          /\ loc[t].k < loc[t].at + resolution

\* C17: of two calls in progress, the one for the earlier instant has the
\* smaller or the same key
C17_KeyMonotonic ==
    \A t, u \in Threads :
       (/\ pc[t] # "idle" /\ loc[t].op = "Context"
        /\ pc[u] # "idle" /\ loc[u].op = "Context"
        /\ loc[t].at <= loc[u].at) =>
          loc[t].k <= loc[u].k

\* C12: every context whose entry has left the map, removed by a sweep or
\* dropped by Cancel(), had been cancelled through its own cancel operation
\* when it left
C12_CancelledBeforeRemoved ==
    \A h \in DOMAIN ctx : ctx[h].out # "in" => ctx[h].outOk

\* C13: no step lowers the stored next-sweep-due time, and the step in which a
\* sweep publishes it raises it by exactly 100 resolutions over the value
\* stored when the sweep won the gate (nothing else stores while the gate is
\* held, so that is the value stored just before the step)
C13_NextDueAdvancesByOnePeriod ==
    [][/\ cleanupTime' >= cleanupTime
       /\ \A t \in Threads :
             (pc[t] = "store" /\ pc'[t] = "range") =>
                cleanupTime' = cleanupTime + CleanupFactor * resolution]_vars

\* the next-sweep-due time was before the `now` of thread t's call when the
\* call, which ran with no other call in progress, arrived
DueAtArrival(t) ==
    IF loc[t].ct # -1 THEN loc[t].ct < loc[t].now ELSE cleanupTime < loc[t].now

\* the call of thread t, which ran with no other call in progress, published a
\* next-sweep-due time and ran the sweep
RanSweep(t) ==
    /\ loc[t].ct # -1
    /\ cleanupTime = loc[t].ct + CleanupFactor * resolution
    /\ sweeps # << >>
    /\ sweeps[Len(sweeps)] = loc[t].now

\* C14 as stated: every Context call, hit or miss, has compared the
\* next-sweep-due time with its `now` when it returns, and a call that ran with
\* no other call in progress (so the gate was free) and arrived when a sweep
\* was due has run a sweep
C14_EveryCallTriggersSweep ==
    \A t \in Threads :
       pc[t] = "ret" =>
          /\ loc[t].ct # -1
          /\ (Alone(t) /\ DueAtArrival(t)) => RanSweep(t)

\* C14 amended: a call that hits on the fast path returns without comparing
\* the next-sweep-due time and without sweeping; a call that misses has
\* compared it when it returns, and when it ran with no other call in progress
\* and arrived when a sweep was due it has run a sweep
C14_MissTriggersSweep ==
    \A t \in Threads :
       pc[t] = "ret" =>
          /\ loc[t].ok => (loc[t].ct = -1 /\ ~loc[t].slow)
          /\ ~loc[t].ok =>
                /\ loc[t].ct # -1
                /\ (Alone(t) /\ DueAtArrival(t)) => RanSweep(t)

\* a call that missed on the fast path, alone, while a sweep was due, returns
\* having swept; the call before it swept too
C14_Witness ==
    \E t \in Threads :
       /\ pc[t] = "ret"
       /\ ~loc[t].ok
       /\ Alone(t)
       /\ loc[t].ct < loc[t].now
       /\ RanSweep(t)
       /\ Len(sweeps) = 2

\* C15: with a Background that has no deadline, the deadline of every context
\* a sweep removed from the map is before the `now` of that sweep
C15_SweepRemovesOnlyElapsed ==
    Background.deadline = NoDeadline =>
       \A h \in DOMAIN ctx :
          ctx[h].out = "sweep" => ctx[h].deadline < ctx[h].outNow

\* a sweep removed an entry other than the one it had read and cancelled: one
\* made under the same key after a Cancel() in between
C15_Witness ==
    /\ Background.deadline = NoDeadline
    /\ cancels > 0
    /\ \E h \in DOMAIN ctx :
          /\ ctx[h].out = "sweep"
          /\ ~ctx[h].outOk
          /\ ctx[h].deadline < ctx[h].outNow

\* the positions between a successful tryLockCleanup and unlockCleanup
SweepPcs == {"store", "range", "next", "body", "cancel", "dlock", "delete",
             "dunlock", "end", "release"}

\* the threads inside the sweep
Sweepers == {t \in Threads : pc[t] \in SweepPcs}

\* C18: at most one thread is inside the sweep, the gate flag is 1 exactly
\* while a thread is, and a gate that is taken is released
C18_OneSweeperAndGateReleased ==
    /\ [](/\ Cardinality(Sweepers) <= 1
          /\ cleanupLock \in {0, 1}
          /\ (cleanupLock = 1) <=> (Sweepers # {}))
    /\ (cleanupLock = 1) ~> (cleanupLock = 0)

\* one thread is inside the only sweep so far while another, which found the
\* sweep due too, lost the compare-and-swap and is about to return
C18_Witness ==
    \E t, u \in Threads :
       /\ t # u
       /\ pc[t] \in SweepPcs
       /\ cleanupLock = 1
       /\ Len(sweeps) = 1
       /\ pc[u] = "ret"
       /\ loc[u].ct # -1
       /\ loc[u].ct < loc[u].now

\* thread s holds the sweep gate and neither the shared nor the exclusive lock
Parked(s) ==
    /\ pc[s] \in {"store", "range", "next", "cancel", "dlock", "release"}
    /\ mutex.w # s
    /\ s \notin mutex.readers

\* thread u is inside a Context call, outside the sweep
InContext(u) ==
    pc[u] \in {"rlock", "runlock", "lock", "create", "unlock", "load", "try", "ret"}

\* C19: while a thread is parked inside the sweep and no third thread holds or
\* waits for the map lock, the next step of any other thread's Context call
\* can be taken (so the call runs to its return on its own steps), and no
\* step of such a call removes a key from the map
C19_NoCallerWaitsOnSweep ==
    /\ [](\A s, u \in Threads :
            (/\ s # u
             /\ Parked(s)
             /\ InContext(u)
             /\ mutex.w \in {0, u}
             /\ mutex.readers \subseteq {u}) => ENABLED LockSteps(u))
    /\ [][\A s, u \in Threads :
            (/\ s # u
             /\ pc[s] \in SweepPcs
             /\ InContext(u)
             /\ pc'[u] # pc[u]) =>
                /\ pc'[u] \notin SweepPcs
                /\ pc'[s] = pc[s]
                /\ DOMAIN CurMap \subseteq DOMAIN CurMap']_vars

\* a sweep is parked between cancelling an entry and taking the exclusive lock
\* to remove it, while another call, begun after the sweep, has made its
\* bucket, found the sweep due, lost the gate and is about to return
C19_Witness ==
    \E s, u \in Threads :
       /\ s # u
       /\ Parked(s)
       /\ pc[s] = "dlock"
       /\ pc[u] = "ret"
       /\ loc[u].seq > loc[s].seq
       /\ loc[u].made
       /\ loc[u].ct # -1
       /\ loc[u].ct < loc[u].now

\* C20: the removal step of a sweep whose key the map no longer holds changes
\* neither the map nor any context; d.cancel() on a context already done
\* leaves its error as it is; and the sweep goes on to release the gate and
\* return
C20_RemovalOfMissingKeyIsNoOp ==
    /\ [][\A t \in Threads :
             (/\ pc[t] = "delete"
              /\ pc'[t] = "dunlock"
              /\ loc[t].ck \notin DOMAIN CurMap) =>
                 /\ deadlines' = deadlines
                 /\ heap' = heap
                 /\ ctx' = ctx]_vars
    /\ [][\A t \in Threads :
             (/\ pc[t] = "cancel"
              /\ pc'[t] = "dlock"
              /\ ctx[loc[t].cd].err # None) =>
                 ctx'[loc[t].cd].err = ctx[loc[t].cd].err]_vars
    /\ \A t \in Threads :
          (pc[t] = "delete" /\ loc[t].ck \notin DOMAIN CurMap) ~>
             (pc[t] = "ret" /\ cleanupLock = 0)

\* a sweep read an entry, Cancel() cancelled it and emptied the map, and the
\* sweep has then cancelled it again and run its removal step on the nil map
C20_Witness ==
    \E t \in Threads :
       /\ pc[t] = "dunlock"
       /\ deadlines = 0
       /\ cancels > 0
       /\ ctx[loc[t].cd].out = "Cancel"
       /\ ctx[loc[t].cd].err # None

\* C11: Sleep returns nil only once the duration has passed, returns
\* an error only when ctx is done, that error being ctx's, and returns ctx's
\* error whenever ctx was already done at the call and the duration is > 0
C11_SleepFirstEventWins ==
    \A t \in Threads :
       pc[t] = "s_ret" =>
          /\ loc[t].err = None => clock >= loc[t].at
          /\ loc[t].err # None => loc[t].err = Err(loc[t].d)
          /\ (loc[t].doneAtCall /\ loc[t].duration > 0) => loc[t].err # None

\* what the select of Sleep does guarantee: Sleep does not return before the duration has passed or ctx is
\* done; it returns nil only if the duration had passed when its select chose,
\* and ctx's error, which is not nil, only if ctx was done then; when only one
\* of the two had happened, that one decides, so it returns ctx's error when
\* ctx was done at the call and the duration had not passed when the select
\* chose; and a Sleep whose duration has passed or whose ctx is done can return
SleepReturnsAnEventThatHappened ==
    \A t \in Threads :
       /\ pc[t] = "s_ret" =>
             /\ loc[t].fired \/ loc[t].closed
             /\ loc[t].err = None => loc[t].fired
             /\ loc[t].err # None => (loc[t].closed /\ loc[t].err = Err(loc[t].d))
             /\ (loc[t].fired /\ ~loc[t].closed) => loc[t].err = None
             /\ (loc[t].closed /\ ~loc[t].fired) => loc[t].err # None
             /\ (loc[t].doneAtCall /\ ~loc[t].fired) => loc[t].err # None
             /\ loc[t].fired => clock >= loc[t].at
       /\ (pc[t] = "select" /\ (clock >= loc[t].at \/ Err(loc[t].d) # None)) =>
             ENABLED SleepSelect(t)

\* a Sleep with a duration > 0 on a context that became done after the call
\* and before the duration had passed returns the context's error
C11_Witness ==
    \E t \in Threads :
       /\ pc[t] = "s_ret"
       /\ loc[t].duration > 0
       /\ ~loc[t].doneAtCall
       /\ loc[t].closed
       /\ ~loc[t].fired
       /\ loc[t].err = Canceled

====
